---- MODULE Spec2Model ----
(***************************************************************************)
(* Model of src/src/main.rs: the fibonacci HTTP service instrumented with  *)
(* OpenTelemetry.  The process (main) installs the propagator and the two  *)
(* global providers, starts the HTTP server and finally shuts the tracer   *)
(* provider down; each worker runs the handler fibonacci, which calls      *)
(* compute_fibonacci, statement by statement.                              *)
(***************************************************************************)
EXTENDS Integers, Sequences, FiniteSets, TLC

(***************************************************************************)
(* Bounds of the model.                                                    *)
(***************************************************************************)
\* requests n range over -BelowRange .. 90 + AboveRange
BelowRange == 2
AboveRange == 3
\* number of requests the server takes before it is stopped at the latest
MaxRequests == 2
\* worker slots of the HTTP server (Spec drives the first one only; the
\* handler has no suspension point, so one worker handles one request at a time)
NumWorkers == 2

Workers == 1..NumWorkers
NValues == (0 - BelowRange)..(90 + AboveRange)

(***************************************************************************)
(* i64 arithmetic.  An i64 is kept as its 64-bit two's-complement pattern, *)
(* an unsigned number below 2^64 written as three base-10^9 limbs          *)
(* <<hi, mid, lo>>, so that every intermediate value stays inside the      *)
(* checker's machine integers.                                             *)
(***************************************************************************)
Base == 1000000000

Two63 == <<9, 223372036, 854775808>>
Two64 == <<18, 446744073, 709551616>>

I64Zero == <<0, 0, 0>>
I64One == <<0, 0, 1>>

LimbAdd(x, y) ==
    LET lo  == x[3] + y[3]
        mid == x[2] + y[2] + (lo \div Base)
        hi  == x[1] + y[1] + (mid \div Base)
    IN  <<hi, mid % Base, lo % Base>>

LimbGeq(x, y) ==
    \/ x[1] > y[1]
    \/ x[1] = y[1] /\ x[2] > y[2]
    \/ x[1] = y[1] /\ x[2] = y[2] /\ x[3] >= y[3]

\* x - y for x >= y
LimbSub(x, y) ==
    LET b3  == IF x[3] < y[3] THEN 1 ELSE 0
        lo  == x[3] + b3 * Base - y[3]
        b2  == IF x[2] < y[2] + b3 THEN 1 ELSE 0
        mid == x[2] + b2 * Base - y[2] - b3
    IN  <<x[1] - y[1] - b2, mid, lo>>

\* sign bit of the two's-complement pattern
I64IsNeg(x) == LimbGeq(x, Two63)

\* the bit pattern of a + b in 64 bits (what a release build computes)
I64WrappingAdd(x, y) ==
    LET s == LimbAdd(x, y)
    IN  IF LimbGeq(s, Two64) THEN LimbSub(s, Two64) ELSE s

\* a + b leaves the i64 range (a debug build panics here)
I64AddOverflows(x, y) ==
    /\ I64IsNeg(x) = I64IsNeg(y)
    /\ I64IsNeg(I64WrappingAdd(x, y)) # I64IsNeg(x)

(***************************************************************************)
(* State.                                                                  *)
(***************************************************************************)
VARIABLES
    mainPc,          \* position of main
    exitCode,        \* exit status of the process, -1 while it runs
    environ,         \* what OTEL_RESOURCE_ATTRIBUTES holds: an attribute map
    propagator,      \* global text-map propagator
    resource,        \* the merged resource (attribute map), once built
    tracerPipeline,  \* local tracer_provider: not built, failed, or built
    meterPipeline,   \* local metric_provider: not built, failed, or built
    globalTracer,    \* global tracer provider: "noop" | "sdk" | "shutdown"
    globalMeter,     \* global meter provider: "noop" | "sdk"
    server,          \* the HTTP server: "none" | "bound" | "accepting" | "closed"
    counter,         \* fibo_counter: attribute value of "id" -> total
    accepted,        \* requests the server has dispatched to a handler
    pc,              \* per worker: position of the handler
    req,             \* per worker: req.n
    a, b, i, result, \* per worker: locals of compute_fibonacci
    loops,           \* per worker: executions of the loop body, this request
    span,            \* per worker: the span of this request
    adds,            \* per worker: counter.add calls of this request
    ret,             \* per worker: value returned by compute_fibonacci
    response         \* per worker: what fibonacci returned to the HTTP front

mainVars == <<mainPc, exitCode, environ, propagator, resource, tracerPipeline, meterPipeline,
              globalTracer, globalMeter, server>>
handlerVars == <<pc, req, a, b, i, result, loops, span, adds, ret, response>>
vars == <<mainVars, counter, accepted, environ,
                   handlerVars>>

(***************************************************************************)
(* FibonacciResult and its serialization.                                  *)
(***************************************************************************)
ErrMsg == "n must be between 1 and 90"

is_zero(num) == num = 0

\* is_zero on a field that holds a computed i64
is_zero_i64(num) == num = I64Zero

\* a message field that is always written
is_empty_never(str) == FALSE

is_empty(str) == str = ""

FibonacciResult(n, res, message) == [n |-> n, result |-> res, message |-> message]

\* #[derive(Serialize)] with the skip_serializing_if attributes: the JSON
\* object as a map from the names of the fields written to their values
Serialize(r) ==
    LET skip(k) == CASE k = "n"       -> is_zero(r.n)
                     [] k = "result"  -> is_zero_i64(r.result)
                     [] k = "message" -> is_empty(r.message)
        kept    == {k \in {"n", "result", "message"} : ~skip(k)}
    IN  [k \in kept |-> r[k]]

(***************************************************************************)
(* Spans and the counter.                                                  *)
(***************************************************************************)
NoSpan == [started |-> 0, ended |-> 0, provider |-> "none",
           attrs |-> [k \in {} |-> 0], status |-> <<"unset">>]

\* a set_attribute that throws the earlier attributes away
SetAttributeReplacingAll(s, key, value) ==
    [s EXCEPT !.attrs = [k \in {key} |-> value]]

\* span.set_attribute: a later value for the same key replaces the earlier
SetAttribute(s, key, value) ==
    [s EXCEPT !.attrs = [k \in DOMAIN s.attrs \cup {key} |->
                            IF k = key THEN value ELSE s.attrs[k]]]

\* a set_status that loses the description
SetStatusErrorNoDescription(s, msg) == [s EXCEPT !.status = <<"error", "">>]

\* span.set_status(Status::error(msg))
SetStatusError(s, msg) == [s EXCEPT !.status = <<"error", msg>>]

\* a span that is kept alive past the return and never ended
EndSpanLeaked(s) == s

\* the span is dropped when compute_fibonacci returns, which ends it
EndSpan(s) == [s EXCEPT !.ended = @ + 1]

\* a counter whose add counts every value twice
CounterAddDoubled(c, idValue, value) ==
    [k \in DOMAIN c \cup {idValue} |->
        IF k = idValue THEN (IF k \in DOMAIN c THEN c[k] ELSE 0) + 2 * value ELSE c[k]]

\* a counter whose add stores the value instead of adding it
CounterAddLost(c, idValue, value) == [k \in {idValue} |-> value]

\* counter.add(value, [id = idValue]) on the meter of the global provider
CounterAdd(c, idValue, value) ==
    [k \in DOMAIN c \cup {idValue} |->
        IF k = idValue THEN (IF k \in DOMAIN c THEN c[k] ELSE 0) + value ELSE c[k]]

\* a range test that lets n up to 93 through
OutOfRangeTooWide(n) == n < 1 \/ n > 93

\* a range test that is off by one at the upper end
OutOfRangeOffByOne(n) == n < 1 \/ n > 91

\* the range test of compute_fibonacci
OutOfRange(n) == n < 1 \/ n > 90

\* a loop whose index starts from the shared request count
LoopInitCounted ==
    [a |-> I64Zero, b |-> I64One,
     i |-> IF "1234" \in DOMAIN counter THEN counter["1234"] ELSE 1]

\* a loop started from a = 1, b = 1
LoopInitBothOne == [a |-> I64One, b |-> I64One, i |-> 1]

\* lines 81-84: the locals of the loop as first set
LoopInit == [a |-> I64Zero, b |-> I64One, i |-> 1]

\* a loop test that lets the loop run once more
LoopGuardInclusive(iv, n) == iv <= n

\* the loop test of compute_fibonacci
LoopGuard(iv, n) == iv < n

\* an Err arm that reports a message of its own
MatchResultOtherMessage(n, r) ==
    IF r.tag = "Ok"
    THEN [n |-> n, result |-> r.value, message |-> ""]
    ELSE [n |-> 0, result |-> I64Zero, message |-> "invalid input"]

\* the arms of the match in fibonacci: the FibonacciResult built from what
\* compute_fibonacci returned (format!("{}", error) prints the boxed message)
MatchResult(n, r) ==
    IF r.tag = "Ok"
    THEN FibonacciResult(n, r.value, "")
    ELSE FibonacciResult(0, I64Zero, r.error)

NoRet == [tag |-> "None"]
NoResponse == [kind |-> "none"]

(***************************************************************************)
(* The handler: fibonacci and compute_fibonacci, statement by statement.   *)
(***************************************************************************)
\* the HTTP front dispatches GET /fibonacci?n=<n> to a free worker
Receive(w, n) ==
    /\ mainPc = "running"
    /\ pc[w] \in {"idle", "done"}
    /\ accepted < MaxRequests
    /\ accepted' = accepted + 1
    /\ req' = [req EXCEPT ![w] = n]
    /\ pc' = [pc EXCEPT ![w] = "start_span"]
    /\ a' = [a EXCEPT ![w] = I64Zero]
    /\ b' = [b EXCEPT ![w] = I64Zero]
    /\ i' = [i EXCEPT ![w] = 0]
    /\ result' = [result EXCEPT ![w] = I64Zero]
    /\ loops' = [loops EXCEPT ![w] = 0]
    /\ span' = [span EXCEPT ![w] = NoSpan]
    /\ adds' = [adds EXCEPT ![w] = <<>>]
    /\ ret' = [ret EXCEPT ![w] = NoRet]
    /\ response' = [response EXCEPT ![w] = NoResponse]
    /\ UNCHANGED <<mainVars, counter>>

\* a span that is given fibonacci.n when it is built, before the counter.add
StartSpanAnnotating(w) ==
    /\ pc[w] = "start_span"
    /\ span' = [span EXCEPT ![w] =
                   SetAttribute([@ EXCEPT !.started = @ + 1, !.provider = globalTracer],
                                "fibonacci.n", req[w])]
    /\ pc' = [pc EXCEPT ![w] = "counter_add"]
    /\ UNCHANGED <<mainVars, counter, accepted, req, a, b, i, result, loops,
                   adds, ret, response>>

\* lines 61-64: tracer.span_builder("fibonacci").start(&tracer)
StartSpan(w) ==
    /\ pc[w] = "start_span"
    /\ span' = [span EXCEPT ![w] = [@ EXCEPT !.started = @ + 1,
                                             !.provider = globalTracer]]
    /\ pc' = [pc EXCEPT ![w] = "counter_add"]
    /\ UNCHANGED <<mainVars, counter, accepted, req, a, b, i, result, loops,
                   adds, ret, response>>

\* lines 66-68: counter.add(1, &[KeyValue::new("id", "1234")])
AddCounter(w) ==
    /\ pc[w] = "counter_add"
    /\ counter' = IF globalMeter = "sdk" THEN CounterAdd(counter, "1234", 1)
                                          ELSE counter
    /\ adds' = [adds EXCEPT ![w] = Append(@, [value |-> 1, id |-> "1234"])]
    /\ pc' = [pc EXCEPT ![w] = "set_attr_n"]
    /\ UNCHANGED <<mainVars, accepted, req, a, b, i, result, loops, span, ret,
                   response>>

\* line 70: span.set_attribute(KeyValue::new("fibonacci.n", n))
SetAttrN(w) ==
    /\ pc[w] = "set_attr_n"
    /\ span' = [span EXCEPT ![w] = SetAttribute(@, "fibonacci.n", req[w])]
    /\ pc' = [pc EXCEPT ![w] = "validate"]
    /\ UNCHANGED <<mainVars, counter, accepted, req, a, b, i, result, loops,
                   adds, ret, response>>

\* line 72: if n < 1 || n > 90
Validate(w) ==
    /\ pc[w] = "validate"
    /\ pc' = [pc EXCEPT ![w] = IF OutOfRange(req[w]) THEN "set_status"
                                                      ELSE "init_result"]
    /\ UNCHANGED <<mainVars, counter, accepted, req, a, b, i, result, loops,
                   span, adds, ret, response>>

\* lines 73-74: span.set_status(Status::error(err_msg))
SetStatus(w) ==
    /\ pc[w] = "set_status"
    /\ span' = [span EXCEPT ![w] = SetStatusError(@, ErrMsg)]
    /\ pc' = [pc EXCEPT ![w] = "return_err"]
    /\ UNCHANGED <<mainVars, counter, accepted, req, a, b, i, result, loops,
                   adds, ret, response>>

\* line 76: return Err(Box::from(err_msg)); the span goes out of scope
ReturnErr(w) ==
    /\ pc[w] = "return_err"
    /\ ret' = [ret EXCEPT ![w] = [tag |-> "Err", error |-> ErrMsg]]
    /\ span' = [span EXCEPT ![w] = EndSpan(@)]
    /\ pc' = [pc EXCEPT ![w] = "match"]
    /\ UNCHANGED <<mainVars, counter, accepted, req, a, b, i, result, loops,
                   adds, response>>

\* lines 79-80: let mut result: i64 = 1; if n > 2
InitResult(w) ==
    /\ pc[w] = "init_result"
    /\ result' = [result EXCEPT ![w] = I64One]
    /\ pc' = [pc EXCEPT ![w] = IF req[w] > 2 THEN "init_loop" ELSE "set_attr_result"]
    /\ UNCHANGED <<mainVars, counter, accepted, req, a, b, i, loops, span, adds,
                   ret, response>>

\* lines 81-84: a = 0, b = 1, i = 1
InitLoop(w) ==
    /\ pc[w] = "init_loop"
    /\ a' = [a EXCEPT ![w] = LoopInit.a]
    /\ b' = [b EXCEPT ![w] = LoopInit.b]
    /\ i' = [i EXCEPT ![w] = LoopInit.i]
    /\ pc' = [pc EXCEPT ![w] = "loop"]
    /\ UNCHANGED <<mainVars, counter, accepted, req, result, loops, span, adds,
                   ret, response>>

\* lines 85-89: one turn of the loop.  When a + b overflows, a build with
\* overflow checks panics and a build without them wraps.
LoopBody(w) ==
    /\ pc[w] = "loop"
    /\ LoopGuard(i[w], req[w])
    /\ loops' = [loops EXCEPT ![w] = @ + 1]
    /\ \E checks \in IF I64AddOverflows(a[w], b[w]) THEN BOOLEAN ELSE {FALSE} :
         IF checks
         THEN \* panic: the stack unwinds, which drops (ends) the span
              /\ pc' = [pc EXCEPT ![w] = "panicked"]
              /\ response' = [response EXCEPT ![w] = [kind |-> "panic"]]
              /\ span' = [span EXCEPT ![w] = EndSpan(@)]
              /\ UNCHANGED <<a, b, i, result>>
         ELSE /\ result' = [result EXCEPT ![w] = I64WrappingAdd(a[w], b[w])]
              /\ a' = [a EXCEPT ![w] = b[w]]
              /\ b' = [b EXCEPT ![w] = I64WrappingAdd(a[w], b[w])]
              /\ i' = [i EXCEPT ![w] = @ + 1]
              /\ UNCHANGED <<pc, response, span>>
    /\ UNCHANGED <<mainVars, counter, accepted, req, adds, ret>>

\* line 85: the loop test fails
LoopExit(w) ==
    /\ pc[w] = "loop"
    /\ ~LoopGuard(i[w], req[w])
    /\ pc' = [pc EXCEPT ![w] = "set_attr_result"]
    /\ UNCHANGED <<mainVars, counter, accepted, req, a, b, i, result, loops,
                   span, adds, ret, response>>

\* line 92: span.set_attribute(KeyValue::new("fibonacci.result", result))
SetAttrResult(w) ==
    /\ pc[w] = "set_attr_result"
    /\ span' = [span EXCEPT ![w] = SetAttribute(@, "fibonacci.result", result[w])]
    /\ pc' = [pc EXCEPT ![w] = "return_ok"]
    /\ UNCHANGED <<mainVars, counter, accepted, req, a, b, i, result, loops,
                   adds, ret, response>>

\* line 93: Ok(result); the span goes out of scope
ReturnOk(w) ==
    /\ pc[w] = "return_ok"
    /\ ret' = [ret EXCEPT ![w] = [tag |-> "Ok", value |-> result[w]]]
    /\ span' = [span EXCEPT ![w] = EndSpan(@)]
    /\ pc' = [pc EXCEPT ![w] = "match"]
    /\ UNCHANGED <<mainVars, counter, accepted, req, a, b, i, result, loops,
                   adds, response>>

\* lines 46-57: fibonacci wraps the outcome in web::Json and returns it
Respond(w) ==
    /\ pc[w] = "match"
    /\ response' = [response EXCEPT ![w] =
                        [kind |-> "json", value |-> MatchResult(req[w], ret[w])]]
    /\ pc' = [pc EXCEPT ![w] = "done"]
    /\ UNCHANGED <<mainVars, counter, accepted, req, a, b, i, result, loops,
                   span, adds, ret>>

Handler(w) ==
    \/ StartSpan(w) \/ AddCounter(w) \/ SetAttrN(w) \/ Validate(w)
    \/ SetStatus(w) \/ ReturnErr(w)
    \/ InitResult(w) \/ InitLoop(w) \/ LoopBody(w) \/ LoopExit(w)
    \/ SetAttrResult(w) \/ ReturnOk(w) \/ Respond(w)

(***************************************************************************)
(* main.                                                                   *)
(***************************************************************************)
\* a merge in which the keys already present win
MergeKeepingFirst(r, other) ==
    [k \in DOMAIN r \cup DOMAIN other |-> IF k \in DOMAIN r THEN r[k] ELSE other[k]]

\* Resource::merge: the keys of other win over the keys of r
Merge(r, other) ==
    [k \in DOMAIN r \cup DOMAIN other |-> IF k \in DOMAIN other THEN other[k] ELSE r[k]]

NoAttrs == [k \in {} |-> ""]

\* what the three detectors find: SdkProvidedResourceDetector reports
\* service.name, EnvResourceDetector the pairs of OTEL_RESOURCE_ATTRIBUTES
\* (nothing when the variable is unset), TelemetryResourceDetector the SDK's
\* name; EnvChoices are the environments the process is started in
SdkProvided == [k \in {"service.name"} |-> "unknown_service"]
EnvChoices ==
    { NoAttrs,
      [k \in {"service.name"} |-> "fibonacci"],
      [k \in {"telemetry.sdk.name"} |-> "custom"] }
Telemetry == [k \in {"telemetry.sdk.name"} |-> "opentelemetry"]

NotBuilt == [state |-> "none"]
Failed == [state |-> "failed"]
Built(r) == [state |-> "built", resource |-> r]

\* a result that is ignored instead of expected
ExpectIgnored(ok, next) == next

\* .expect(..): go on when the pipeline was built, panic otherwise
Expect(ok, next) == IF ok THEN next ELSE "panicked"

\* exit status of a process whose main panicked / returned Err / returned Ok
ExitOf(p) == CASE p = "panicked" -> 101
               [] p = "failed"   -> 1
               [] p = "exited"   -> 0
               [] OTHER          -> -1

\* line 98: global::set_text_map_propagator(TraceContextPropagator::new())
SetPropagator ==
    /\ mainPc = "start"
    /\ propagator' = "tracecontext"
    /\ mainPc' = "detect"
    /\ UNCHANGED <<exitCode, resource, tracerPipeline, meterPipeline, globalTracer,
                   globalMeter, server, counter, accepted, environ,
                   handlerVars>>

\* lines 100-105: the three detectors, merged in order
BuildResource ==
    /\ mainPc = "detect"
    /\ resource' = Merge(Merge(SdkProvided, environ), Telemetry)
    /\ mainPc' = "trace_pipeline"
    /\ UNCHANGED <<exitCode, propagator, tracerPipeline, meterPipeline, globalTracer,
                   globalMeter, server, counter, accepted, environ,
                   handlerVars>>

\* lines 107-116: the trace pipeline; install_batch(..).expect(..)
InstallTracePipeline ==
    /\ mainPc = "trace_pipeline"
    /\ \E ok \in BOOLEAN :
         /\ tracerPipeline' = IF ok THEN Built(resource) ELSE Failed
         /\ mainPc' = Expect(ok, "metrics_pipeline")
         /\ exitCode' = ExitOf(mainPc')
    /\ UNCHANGED <<propagator, resource, meterPipeline, globalTracer, globalMeter,
                   server, counter, accepted, environ,
                   handlerVars>>

\* lines 118-127: the metrics pipeline; build().expect(..)
BuildMetricsPipeline ==
    /\ mainPc = "metrics_pipeline"
    /\ \E ok \in BOOLEAN :
         /\ meterPipeline' = IF ok THEN Built(resource) ELSE Failed
         /\ mainPc' = Expect(ok, "set_meter")
         /\ exitCode' = ExitOf(mainPc')
    /\ UNCHANGED <<propagator, resource, tracerPipeline, globalTracer, globalMeter,
                   server, counter, accepted, environ,
                   handlerVars>>

\* line 129: global::set_meter_provider(metric_provider)
SetMeterProvider ==
    /\ mainPc = "set_meter"
    /\ globalMeter' = "sdk"
    /\ mainPc' = "set_tracer"
    /\ UNCHANGED <<exitCode, propagator, resource, tracerPipeline, meterPipeline,
                   globalTracer, server, counter, accepted, environ,
                   handlerVars>>

\* a main that goes on to the server without installing the tracer provider
SetTracerProviderSkipped ==
    /\ mainPc = "set_tracer"
    /\ mainPc' = "bind"
    /\ UNCHANGED <<exitCode, propagator, resource, tracerPipeline, meterPipeline,
                   globalTracer, globalMeter, server, counter, accepted, environ,
                   handlerVars>>

\* line 130: global::set_tracer_provider(tracer_provider)
SetTracerProvider ==
    /\ mainPc = "set_tracer"
    /\ globalTracer' = "sdk"
    /\ mainPc' = "bind"
    /\ UNCHANGED <<exitCode, propagator, resource, tracerPipeline, meterPipeline,
                   globalMeter, server, counter, accepted, environ,
                   handlerVars>>

\* lines 132-137: HttpServer::new(..).bind(("0.0.0.0", 8080))?
BindServer ==
    /\ mainPc = "bind"
    /\ \E ok \in BOOLEAN :
         /\ server' = IF ok THEN "bound" ELSE "none"
         /\ mainPc' = IF ok THEN "run" ELSE "failed"
         /\ exitCode' = ExitOf(mainPc')
    /\ UNCHANGED <<propagator, resource, tracerPipeline, meterPipeline, globalTracer,
                   globalMeter, counter, accepted, environ,
                   handlerVars>>

\* line 138: .run(): the workers start accepting connections
RunServer ==
    /\ mainPc = "run"
    /\ server' = "accepting"
    /\ mainPc' = "running"
    /\ UNCHANGED <<exitCode, propagator, resource, tracerPipeline, meterPipeline,
                   globalTracer, globalMeter, counter, accepted, environ,
                   handlerVars>>

\* a termination signal reaches the server: it stops accepting
StopAccepting ==
    /\ mainPc = "running"
    /\ server' = "closed"
    /\ mainPc' = "stopping"
    /\ UNCHANGED <<exitCode, propagator, resource, tracerPipeline, meterPipeline,
                   globalTracer, globalMeter, counter, accepted, environ,
                   handlerVars>>

\* a server whose run() returns without waiting for the requests in flight
ServerStoppedNotWaiting ==
    /\ mainPc = "stopping"
    /\ mainPc' = "shutdown_tracer"
    /\ UNCHANGED <<exitCode, propagator, resource, tracerPipeline, meterPipeline,
                   globalTracer, globalMeter, server, counter, accepted, environ,
                   handlerVars>>

\* line 139: .await? returns once the workers have finished their requests
ServerStopped ==
    /\ mainPc = "stopping"
    /\ \A w \in Workers : pc[w] \in {"idle", "done", "panicked"}
    /\ \E ok \in BOOLEAN :
         /\ mainPc' = IF ok THEN "shutdown_tracer" ELSE "failed"
         /\ exitCode' = ExitOf(mainPc')
    /\ UNCHANGED <<propagator, resource, tracerPipeline, meterPipeline, globalTracer,
                   globalMeter, server, counter, accepted, environ,
                   handlerVars>>

\* line 141: global::shutdown_tracer_provider()
ShutdownTracerProvider ==
    /\ mainPc = "shutdown_tracer"
    /\ globalTracer' = "shutdown"
    /\ mainPc' = "return"
    /\ UNCHANGED <<exitCode, propagator, resource, tracerPipeline, meterPipeline,
                   globalMeter, server, counter, accepted, environ,
                   handlerVars>>

\* line 143: Ok(())
ReturnFromMain ==
    /\ mainPc = "return"
    /\ mainPc' = "exited"
    /\ exitCode' = ExitOf(mainPc')
    /\ UNCHANGED <<propagator, resource, tracerPipeline, meterPipeline, globalTracer,
                   globalMeter, server, counter, accepted, environ,
                   handlerVars>>

Main ==
    \/ SetPropagator \/ BuildResource \/ InstallTracePipeline
    \/ BuildMetricsPipeline \/ SetMeterProvider \/ SetTracerProvider
    \/ BindServer \/ RunServer \/ StopAccepting \/ ServerStopped
    \/ ShutdownTracerProvider \/ ReturnFromMain

(***************************************************************************)
(* Specification: the process from its start, one request at a time.       *)
(***************************************************************************)
Init ==
    /\ mainPc = "start"
    /\ exitCode = -1
    /\ environ \in EnvChoices
    /\ propagator = "noop"
    /\ resource = NoAttrs
    /\ tracerPipeline = NotBuilt
    /\ meterPipeline = NotBuilt
    /\ globalTracer = "noop"
    /\ globalMeter = "noop"
    /\ server = "none"
    /\ counter = [k \in {} |-> 0]
    /\ accepted = 0
    /\ pc = [w \in Workers |-> "idle"]
    /\ req = [w \in Workers |-> 0]
    /\ a = [w \in Workers |-> I64Zero]
    /\ b = [w \in Workers |-> I64Zero]
    /\ i = [w \in Workers |-> 0]
    /\ result = [w \in Workers |-> I64Zero]
    /\ loops = [w \in Workers |-> 0]
    /\ span = [w \in Workers |-> NoSpan]
    /\ adds = [w \in Workers |-> <<>>]
    /\ ret = [w \in Workers |-> NoRet]
    /\ response = [w \in Workers |-> NoResponse]

Next ==
    \/ Main
    \/ \E n \in NValues : Receive(1, n)
    \/ Handler(1)

Spec == Init /\ [][Next]_vars

(***************************************************************************)
(* Specification: the same process with every worker handling requests,    *)
(* interleaved statement by statement, for a few values of n.              *)
(***************************************************************************)
ConcN == {0, 3, 4}

NextConc ==
    \/ Main
    \/ \E w \in Workers : \E n \in ConcN : Receive(w, n)
    \/ \E w \in Workers : Handler(w)

SpecConc == Init /\ [][NextConc]_vars

(***************************************************************************)
(* Properties.                                                             *)
(***************************************************************************)
\* the body the HTTP front writes for worker w, once fibonacci has returned
Body(w) == Serialize(response[w].value)

Returned(w) == pc[w] \in {"match", "done"}
Responded(w) == pc[w] = "done"

\* the reference sequence F(1) = F(2) = 1, F(k) = F(k-1) + F(k-2), as the
\* list <<F(1), .., F(k)>> of exact (unwrapped) numbers
RECURSIVE RefFibSeq(_)
RefFibSeq(k) ==
    IF k = 1 THEN <<I64One>>
    ELSE IF k = 2 THEN <<I64One, I64One>>
    ELSE LET s == RefFibSeq(k - 1)
         IN  Append(s, LimbAdd(s[k - 1], s[k - 2]))

RefFib(k) == RefFibSeq(k)[k]

\* C1: for n <= 0 or n >= 91 the serialized body of the handler's result is
\* exactly {"message": "n must be between 1 and 90"}: n and result are omitted.
C1_ErrorBody ==
    \A w \in Workers :
        (Responded(w) /\ (req[w] <= 0 \/ req[w] >= 91)) =>
            /\ response[w].kind = "json"
            /\ DOMAIN Body(w) = {"message"}
            /\ Body(w)["message"] = "n must be between 1 and 90"

C1_Witness ==
    \E w \in Workers :
        /\ Responded(w) /\ req[w] = 91
        /\ DOMAIN Body(w) = {"message"}

\* C2: for 1 <= n <= 90 compute_fibonacci returns Ok(F(n)) for the reference
\* sequence F, and the loop body has run n-1 times when n > 2 and not at all
\* when n is 1 or 2.
C2_ReturnsFib ==
    \A w \in Workers :
        (Returned(w) /\ req[w] >= 1 /\ req[w] <= 90) =>
            /\ ret[w].tag = "Ok"
            /\ ret[w].value = RefFib(req[w])
            /\ loops[w] = IF req[w] > 2 THEN req[w] - 1 ELSE 0

C2_Witness ==
    \E w \in Workers :
        /\ Returned(w) /\ req[w] = 37
        /\ ret[w].tag = "Ok" /\ loops[w] = 36

\* C3, as stated: compute_fibonacci returns 1 for n = 1, 1 for n = 2, 55 for
\* n = 10 and 1779979416004714189 for n = 90.
C3_KnownValuesAsStated ==
    \A w \in Workers :
        Returned(w) =>
            /\ req[w] = 1  => ret[w] = [tag |-> "Ok", value |-> <<0, 0, 1>>]
            /\ req[w] = 2  => ret[w] = [tag |-> "Ok", value |-> <<0, 0, 1>>]
            /\ req[w] = 10 => ret[w] = [tag |-> "Ok", value |-> <<0, 0, 55>>]
            /\ req[w] = 90 =>
                   ret[w] = [tag |-> "Ok", value |-> <<1, 779979416, 4714189>>]

\* C3, amended: compute_fibonacci returns 1 for n = 1, 1 for n = 2, 55 for
\* n = 10 and 2880067194370816120 for n = 90 (1779979416004714189 is what it
\* returns for n = 89).
C3_KnownValues ==
    \A w \in Workers :
        Returned(w) =>
            /\ req[w] = 1  => ret[w] = [tag |-> "Ok", value |-> <<0, 0, 1>>]
            /\ req[w] = 2  => ret[w] = [tag |-> "Ok", value |-> <<0, 0, 1>>]
            /\ req[w] = 10 => ret[w] = [tag |-> "Ok", value |-> <<0, 0, 55>>]
            /\ req[w] = 89 =>
                   ret[w] = [tag |-> "Ok", value |-> <<1, 779979416, 4714189>>]
            /\ req[w] = 90 =>
                   ret[w] = [tag |-> "Ok", value |-> <<2, 880067194, 370816120>>]

C3_Witness ==
    \E w \in Workers :
        /\ Returned(w) /\ req[w] = 90
        /\ ret[w] = [tag |-> "Ok", value |-> <<2, 880067194, 370816120>>]

\* C4: every handled request, in range or not, creates exactly one span, has
\* ended it exactly once when compute_fibonacci has returned (Ok or Err), and
\* makes exactly one counter increment, of value 1.
C4_OneSpanOneIncrement ==
    \A w \in Workers :
        /\ span[w].started <= 1 /\ span[w].ended <= span[w].started
        /\ Len(adds[w]) <= 1
        /\ Returned(w) =>
              /\ span[w].started = 1
              /\ span[w].ended = 1
              /\ Len(adds[w]) = 1
              /\ adds[w][1].value = 1

C4_Witness ==
    \E w \in Workers :
        /\ Responded(w) /\ ret[w].tag = "Err"
        /\ span[w].started = 1 /\ span[w].ended = 1 /\ Len(adds[w]) = 1

\* C5: for 1 <= n <= 90 the span, when it ends, carries fibonacci.n = n and
\* fibonacci.result = the value returned to the caller, and its status was
\* never set to error.
C5_SuccessSpan ==
    \A w \in Workers :
        (pc[w] # "idle" /\ req[w] >= 1 /\ req[w] <= 90) =>
            /\ span[w].status = <<"unset">>
            /\ span[w].ended > 0 =>
                  /\ DOMAIN span[w].attrs = {"fibonacci.n", "fibonacci.result"}
                  /\ span[w].attrs["fibonacci.n"] = req[w]
                  /\ span[w].attrs["fibonacci.result"] = ret[w].value
                  /\ Responded(w) =>
                        span[w].attrs["fibonacci.result"] = response[w].value.result

C5_Witness ==
    \E w \in Workers :
        /\ Responded(w) /\ req[w] = 10 /\ span[w].ended = 1
        /\ span[w].attrs["fibonacci.result"] = <<0, 0, 55>>

\* C6: for n < 1 or n > 90 the span, when it ends, has status error with the
\* description "n must be between 1 and 90", carries fibonacci.n = n and
\* carries no fibonacci.result attribute.
C6_ErrorSpan ==
    \A w \in Workers :
        (span[w].ended > 0 /\ (req[w] < 1 \/ req[w] > 90)) =>
            /\ span[w].status = <<"error", "n must be between 1 and 90">>
            /\ DOMAIN span[w].attrs = {"fibonacci.n"}
            /\ span[w].attrs["fibonacci.n"] = req[w]

C6_Witness ==
    \E w \in Workers :
        /\ span[w].ended = 1 /\ req[w] = 0
        /\ span[w].status[1] = "error"

\* C7: for every n the handler returns a JSON result value and never an
\* error; a validation failure shows only as the body's message field, and
\* that message is the description of the span's error status.
C7_AlwaysJson ==
    \A w \in Workers :
        /\ pc[w] # "panicked"
        /\ response[w].kind \in {"none", "json"}
        /\ Responded(w) =>
              /\ response[w].kind = "json"
              /\ ("message" \in DOMAIN Body(w)) <=> (req[w] < 1 \/ req[w] > 90)
              /\ ("message" \in DOMAIN Body(w)) <=> (span[w].status[1] = "error")
              /\ ("message" \in DOMAIN Body(w)) =>
                    Body(w)["message"] = span[w].status[2]

C7_Witness ==
    \E w \in Workers :
        /\ Responded(w) /\ req[w] = 93
        /\ response[w].kind = "json"
        /\ Body(w)["message"] = span[w].status[2]

\* C8: the serialized result has exactly one of two shapes: n and result
\* present and message absent, exactly when 1 <= n <= 90, or message present
\* and n and result absent; a success never loses n or result to the
\* omission of zero values.
C8_TwoShapes ==
    \A w \in Workers :
        Responded(w) =>
            IF req[w] >= 1 /\ req[w] <= 90
            THEN /\ DOMAIN Body(w) = {"n", "result"}
                 /\ Body(w)["n"] = req[w]
                 /\ Body(w)["result"] = ret[w].value
            ELSE DOMAIN Body(w) = {"message"}

C8_Witness ==
    \E w \in Workers :
        /\ Responded(w) /\ req[w] = 1
        /\ DOMAIN Body(w) = {"n", "result"}

ProvidersInstalled ==
    /\ propagator = "tracecontext"
    /\ globalMeter = "sdk"
    /\ globalTracer = "sdk"

\* C9: the propagator and both global providers are installed before the
\* server binds and accepts, so no handler runs while a global tracer or
\* meter provider is missing.
C9_InstalledBeforeServing ==
    /\ server \in {"bound", "accepting"} => ProvidersInstalled
    /\ \A w \in Workers :
          /\ pc[w] \notin {"idle", "done"} => ProvidersInstalled
          /\ span[w].started > 0 => span[w].provider = "sdk"
          /\ Len(adds[w]) > 0 => "1234" \in DOMAIN counter

C9_Witness ==
    \E w \in Workers :
        /\ server = "accepting" /\ pc[w] = "validate"
        /\ span[w].provider = "sdk" /\ ProvidersInstalled

\* C10: when the trace pipeline or the metrics pipeline fails to initialize,
\* main aborts before the server is created or bound: nothing is accepted or
\* handled and the process ends abnormally, with a non-zero status.
C10_FailFast ==
    (tracerPipeline.state = "failed" \/ meterPipeline.state = "failed") =>
        /\ mainPc = "panicked"
        /\ exitCode > 0
        /\ server = "none"
        /\ accepted = 0
        /\ \A w \in Workers : pc[w] = "idle" /\ span[w].started = 0
        /\ globalTracer = "noop" /\ globalMeter = "noop"

C10_Witness ==
    /\ tracerPipeline.state = "built"
    /\ meterPipeline.state = "failed"
    /\ mainPc = "panicked" /\ exitCode = 101

Finished(w) == pc[w] \in {"idle", "done"}

\* C11: on graceful shutdown the tracer provider is shut down only after the
\* server has stopped accepting and every handler in flight has finished: no
\* handler starts or is still running at or after shutdown_tracer_provider,
\* and that call is made before the process exits.
C11_ShutdownAfterDrain ==
    /\ [](globalTracer = "shutdown" =>
            /\ server = "closed"
            /\ \A w \in Workers :
                  /\ Finished(w)
                  /\ span[w].started > 0 =>
                        span[w].ended = 1 /\ span[w].provider = "sdk")
    /\ [](exitCode = 0 => globalTracer = "shutdown")
    /\ [][globalTracer = "shutdown" => (pc' = pc /\ span' = span)]_vars

C11_Witness ==
    /\ globalTracer = "shutdown"
    /\ exitCode = 0
    /\ accepted = MaxRequests
    /\ \A w \in Workers : pc[w] = "done" /\ span[w].ended = 1

\* total of fibo_counter for the attribute id = "1234"
CounterTotal == IF "1234" \in DOMAIN counter THEN counter["1234"] ELSE 0

\* C12: on every termination after the providers were installed (server
\* stopped, run returned an error, bind failed) both the tracer provider and
\* the meter provider have been shut down before the process exits.
C12_BothShutDownOnExit ==
    (mainPc \in {"exited", "failed"} /\ globalTracer # "noop" /\ globalMeter # "noop") =>
        /\ globalTracer = "shutdown"
        /\ globalMeter = "shutdown"

\* the requests that have not yet reached their counter.add
BeforeAdd == {w \in Workers : pc[w] \in {"start_span", "counter_add"}}

\* C13: with requests handled concurrently, each span ends with the
\* attributes and status that its own n determines, each response carries its
\* own n and result, and the counter's total is the number of requests that
\* have made their increment: none is lost, none is counted twice.
C13_NoInterference ==
    /\ CounterTotal = accepted - Cardinality(BeforeAdd)
    /\ \A w \in Workers :
          /\ "fibonacci.n" \in DOMAIN span[w].attrs =>
                span[w].attrs["fibonacci.n"] = req[w]
          /\ span[w].ended > 0 =>
                IF req[w] < 1 \/ req[w] > 90
                THEN /\ DOMAIN span[w].attrs = {"fibonacci.n"}
                     /\ span[w].status = <<"error", "n must be between 1 and 90">>
                ELSE /\ DOMAIN span[w].attrs = {"fibonacci.n", "fibonacci.result"}
                     /\ span[w].attrs["fibonacci.result"] = RefFib(req[w])
                     /\ span[w].status = <<"unset">>
          /\ (Responded(w) /\ req[w] >= 1 /\ req[w] <= 90) =>
                /\ Body(w)["n"] = req[w]
                /\ Body(w)["result"] = RefFib(req[w])

C13_Witness ==
    \E w1, w2 \in Workers :
        /\ req[w1] = 4 /\ pc[w1] = "loop" /\ i[w1] = 2
        /\ req[w2] = 0 /\ pc[w2] = "return_err"
        /\ span[w1].attrs["fibonacci.n"] = 4
        /\ span[w2].attrs["fibonacci.n"] = 0
        /\ CounterTotal = 2

\* C14: for 1 <= n <= 90, two requests with the same n get the same result,
\* whatever was handled before or between them and whatever the counter
\* holds: the result depends on n alone.
C14_SameResultForSameN ==
    \A w1, w2 \in Workers :
        (/\ Returned(w1) /\ Returned(w2)
         /\ req[w1] = req[w2] /\ req[w1] >= 1 /\ req[w1] <= 90) =>
            /\ ret[w1].tag = "Ok"
            /\ ret[w1] = ret[w2]

C14_Witness ==
    \E w1, w2 \in Workers :
        /\ w1 # w2
        /\ pc[w1] = "done" /\ pc[w2] = "match"
        /\ req[w1] = 4 /\ req[w2] = 4
        /\ ret[w1] = ret[w2] /\ ret[w1].tag = "Ok"

Annotated(w) ==
    \/ "fibonacci.result" \in DOMAIN span[w].attrs
    \/ span[w].status[1] = "error"

C16_NoOverflow ==
    \A w \in Workers :
        /\ pc[w] # "panicked"
        /\ ~I64IsNeg(result[w]) /\ ~I64IsNeg(a[w]) /\ ~I64IsNeg(b[w])
        /\ (pc[w] = "loop" /\ i[w] < req[w]) =>
              ~LimbGeq(LimbAdd(a[w], b[w]), <<9, 223372036, 854775808>>)

C16_Witness ==
    \E w \in Workers :
        /\ pc[w] = "loop" /\ req[w] = 90 /\ i[w] = 89
        /\ LimbAdd(a[w], b[w]) = <<2, 880067194, 370816120>>

\* C17: the request counter never decreases; every increment is by exactly 1
\* with the attribute id = "1234", for a request that passes validation and
\* for one that fails it alike; after k handled requests its total is k.
C17_CounterCountsRequests ==
    /\ [](DOMAIN counter \subseteq {"1234"})
    /\ []((\A w \in Workers : Finished(w)) => CounterTotal = accepted)
    /\ [](\A w \in Workers :
            Returned(w) => adds[w] = <<[value |-> 1, id |-> "1234"]>>)
    /\ [][/\ CounterTotal' >= CounterTotal
          /\ counter' # counter =>
                /\ CounterTotal' = CounterTotal + 1
                /\ \E w \in Workers :
                      adds'[w] = Append(adds[w], [value |-> 1, id |-> "1234"])]_vars

C17_Witness ==
    \E w1, w2 \in Workers :
        /\ pc[w1] = "done" /\ ret[w1].tag = "Ok"
        /\ pc[w2] = "done" /\ ret[w2].tag = "Err"
        /\ accepted = 2
        /\ CounterTotal = 2

\* the value of key k when the later of the three layers that has it wins
Layered(k) ==
    IF k \in DOMAIN Telemetry THEN Telemetry[k]
    ELSE IF k \in DOMAIN environ THEN environ[k]
    ELSE SdkProvided[k]

ResourceBuilt == mainPc \notin {"start", "detect"}

\* C18: the resource is built once, by merging the SDK defaults, then the
\* environment attributes, then the telemetry attributes, the later layer
\* winning on a shared key; a detector that finds nothing adds nothing and
\* does not fail the build; both pipelines are given the same resource.
C18_ResourceMerge ==
    /\ [](ResourceBuilt =>
            /\ DOMAIN resource =
                  DOMAIN SdkProvided \cup DOMAIN environ \cup DOMAIN Telemetry
            /\ \A k \in DOMAIN resource : resource[k] = Layered(k))
    /\ [](tracerPipeline.state = "built" => tracerPipeline.resource = resource)
    /\ [](meterPipeline.state = "built" => meterPipeline.resource = resource)
    /\ [][ResourceBuilt => resource' = resource]_vars
    /\ [][mainPc = "detect" => mainPc' = "trace_pipeline"]_vars

C18_Witness ==
    /\ environ = [k \in {"telemetry.sdk.name"} |-> "custom"]
    /\ tracerPipeline.state = "built"
    /\ meterPipeline.state = "built"
    /\ meterPipeline.resource = tracerPipeline.resource
    /\ resource["telemetry.sdk.name"] = "opentelemetry"
    /\ resource["service.name"] = "unknown_service"

====
